---- MODULE Spec2Model ----
(***************************************************************************)
(* Model of gravity's package resolver (package pack), of its unpack       *)
(* helpers and of the update operation's phase executor dispatch           *)
(* (package update, fsmSpec), with the phase state machine that drives it. *)
(***************************************************************************)
EXTENDS Integers, Sequences, FiniteSets, TLC

VARIABLES
    repos,      \* PackageService.GetRepositories(): repository names in store order
    pkgs,       \* PackageService.GetPackages(repo): envelopes of a repository in store order
    ret,        \* the last resolver/configuration call: operation, arguments, result
    created,    \* the ConfigurePackage calls that returned nil
    fs,         \* file system: path -> "absent" | "file" | "empty" | "partial" | "full"
    calls,      \* log of the Unpack / UnpackIfNotUnpacked calls made
    plan,       \* the operation plan: operation type and the executor of each phase
    phase,      \* Phase.State of every phase of the plan
    invoked,    \* how many times each phase's executor was run
    halted,     \* the orchestration run was aborted by a dispatch error
    dispatched  \* the last dispatch: arguments of fsmSpec's function and its result

vars == <<repos, pkgs, ret, created, fs, calls, plan, phase, invoked, halted, dispatched>>

storeVars == <<repos, pkgs, ret, created>>
unpackVars == <<fs, calls>>
updateVars == <<plan, phase, invoked, halted, dispatched>>

(***************************************************************************)
(* Bounds of the model.                                                    *)
(***************************************************************************)
MaxPkgs == 3
MaxConfigs == 2
MaxCalls == 3
MaxRuns == 2

(***************************************************************************)
(* Errors (trace): a nil error, or an error of some kind with its message. *)
(***************************************************************************)
Nil == [kind |-> "nil", msg |-> ""]
Err(kind, msg) == [kind |-> kind, msg |-> msg]
NotFound(msg) == Err("NotFound", msg)
BadParameter(msg) == Err("BadParameter", msg)
IsNotFound(err) == err.kind = "NotFound"

(***************************************************************************)
(* Locators and semantic versions.                                         *)
(***************************************************************************)
Repos == {"r1", "r2"}
Names == {"web", "db"}

\* the version strings packages carry; "bad" is not a semantic version
VersionStrings == {"1.0.0", "1.2.0-rc.1", "1.2.0", "2.0.0", "bad"}

Locator(r, n, v) == [repository |-> r, name |-> n, version |-> v]

\* the nil *loc.Locator / *PackageEnvelope
NoLoc == [nil |-> TRUE]

\* semver.NewVersion on the strings of the model: major.minor.patch[-rc.N]
ParsedVersions ==
    [v \in {"0.0.0", "1.0.0", "1.2.0-rc.1", "1.2.0", "2.0.0"} |->
        CASE v = "0.0.0"      -> [major |-> 0, minor |-> 0, patch |-> 0, pre |-> 0]
          [] v = "1.0.0"      -> [major |-> 1, minor |-> 0, patch |-> 0, pre |-> 0]
          [] v = "1.2.0-rc.1" -> [major |-> 1, minor |-> 2, patch |-> 0, pre |-> 1]
          [] v = "1.2.0"      -> [major |-> 1, minor |-> 2, patch |-> 0, pre |-> 0]
          [] v = "2.0.0"      -> [major |-> 2, minor |-> 0, patch |-> 0, pre |-> 0]]

\* Locator.SemVer(): the parsed version, or a malformed-version error
SemVer(l) ==
    IF l.version \in DOMAIN ParsedVersions
    THEN [err |-> Nil, ver |-> ParsedVersions[l.version]]
    ELSE [err |-> BadParameter("malformed version"), ver |-> NoLoc]

Sign(a, b) == IF a < b THEN -1 ELSE IF a > b THEN 1 ELSE 0

\* semver Version.Compare: major, minor, patch, then the pre-release part,
\* a pre-release (pre > 0) preceding the release (pre = 0)
Compare(a, b) ==
    IF a.major # b.major THEN Sign(a.major, b.major)
    ELSE IF a.minor # b.minor THEN Sign(a.minor, b.minor)
    ELSE IF a.patch # b.patch THEN Sign(a.patch, b.patch)
    ELSE IF a.pre = b.pre THEN 0
    ELSE IF a.pre = 0 THEN 1
    ELSE IF b.pre = 0 THEN -1
    ELSE Sign(a.pre, b.pre)

LessThan(a, b) == Compare(a, b) < 0

\* Locator.ZeroVersion(): the locator of the line at the placeholder version
ZeroVersion(l) == Locator(l.repository, l.name, "0.0.0")

\* Locator.String(): repository/name:version
String(l) == l.repository \o "/" \o l.name \o ":" \o l.version

(***************************************************************************)
(* Envelopes and labels.                                                   *)
(***************************************************************************)
ConfigLabel == "config"
PurposeLabel == "purpose"
InstalledLabel == "installed"

NoLabels == <<>>

Envelope(l, labels, manifest) == [loc |-> l, labels |-> labels, manifest |-> manifest]

\* PackageEnvelope.HasLabel
HasLabel(e, key, val) == key \in DOMAIN e.labels /\ e.labels[key] = val

\* PackageEnvelope.HasLabels
HasLabels(e, labels) == \A k \in DOMAIN labels : HasLabel(e, k, labels[k])

(***************************************************************************)
(* PackageService: the store's enumeration calls.  fault names the call    *)
(* that fails: "none", "*" (GetRepositories) or a repository name          *)
(* (GetPackages of that repository).                                       *)
(***************************************************************************)
Faults == {"none", "*"} \cup Repos

IOError == Err("IO", "package service")

GetRepositories(fault) ==
    IF fault = "*" THEN [err |-> IOError, val |-> <<>>]
    ELSE [err |-> Nil, val |-> repos]

GetPackages(repo, fault) ==
    IF fault = repo THEN [err |-> IOError, val |-> <<>>]
    ELSE [err |-> Nil, val |-> pkgs[repo]]

(***************************************************************************)
(* The predicates the resolver passes to its scans, as closures.           *)
(***************************************************************************)
PredLine(filter) == [kind |-> "line", repository |-> filter.repository,
                     name |-> filter.name, value |-> ""]
PredName(name) == [kind |-> "name", repository |-> "", name |-> name, value |-> ""]
PredConfig(filter) == [kind |-> "config", repository |-> "", name |-> "",
                       value |-> String(ZeroVersion(filter))]
PredInstalled(filter) == [kind |-> "installed", repository |-> filter.repository,
                          name |-> filter.name, value |-> ""]

Matches(p, e) ==
    CASE p.kind = "line" ->
            e.loc.repository = p.repository /\ e.loc.name = p.name
      [] p.kind = "name" -> e.loc.name = p.name
      [] p.kind = "config" -> HasLabel(e, ConfigLabel, p.value)
      [] p.kind = "installed" ->
            IF e.loc.repository # p.repository THEN FALSE
            ELSE IF e.loc.name # p.name THEN FALSE
            ELSE HasLabel(e, InstalledLabel, InstalledLabel)

(***************************************************************************)
(* Scans.  A callback is a closure: its kind and what it captured; acc is  *)
(* the variable of the enclosing function that the closure updates.        *)
(***************************************************************************)
\* the closure FindPackage hands to ForeachPackage: env = &e on every match
FindPackageFnFirst(pred, env, e) ==
    IF Matches(pred, e) /\ env = NoLoc THEN e ELSE env

FindPackageFn(pred, env, e) ==
    IF Matches(pred, e) THEN e ELSE env

\* the closure "predicate" of FindLatestPackagePredicate
LatestPredicateNoCompare(filter, max, e) ==
    IF ~Matches(filter, e) THEN max
    ELSE IF max = NoLoc THEN e.loc
    ELSE max

LatestPredicate(filter, max, e) ==
    IF ~Matches(filter, e) THEN max
    ELSE IF max = NoLoc THEN e.loc
    ELSE IF SemVer(max).err # Nil THEN max
    ELSE IF SemVer(e.loc).err # Nil THEN max
    ELSE IF Compare(SemVer(e.loc).ver, SemVer(max).ver) > 0 THEN e.loc
    ELSE max

\* the closure FindNewerPackages hands to ForeachPackageInRepo
NewerFnSkip(filter, result, e) ==
    IF e.loc.name # filter.name THEN [acc |-> result, err |-> Nil]
    ELSE IF SemVer(filter).err # Nil THEN [acc |-> result, err |-> SemVer(filter).err]
    ELSE IF SemVer(e.loc).err # Nil THEN [acc |-> result, err |-> Nil]
    ELSE IF Compare(SemVer(e.loc).ver, SemVer(filter).ver) > 0
         THEN [acc |-> Append(result, e.loc), err |-> Nil]
    ELSE [acc |-> result, err |-> Nil]

NewerFn(filter, result, e) ==
    IF e.loc.name # filter.name THEN [acc |-> result, err |-> Nil]
    ELSE IF SemVer(filter).err # Nil THEN [acc |-> result, err |-> SemVer(filter).err]
    ELSE IF SemVer(e.loc).err # Nil THEN [acc |-> result, err |-> SemVer(e.loc).err]
    ELSE IF Compare(SemVer(e.loc).ver, SemVer(filter).ver) > 0
         THEN [acc |-> Append(result, e.loc), err |-> Nil]
    ELSE [acc |-> result, err |-> Nil]

CbFindPackage(pred) == [kind |-> "FindPackage", pred |-> pred]
CbLatest(pred) == [kind |-> "Latest", pred |-> pred]
CbNewer(filter) == [kind |-> "Newer", pred |-> filter]

Callback(cb, acc, e) ==
    CASE cb.kind = "FindPackage" -> [acc |-> FindPackageFn(cb.pred, acc, e), err |-> Nil]
      [] cb.kind = "Latest" -> [acc |-> LatestPredicate(cb.pred, acc, e), err |-> Nil]
      [] cb.kind = "Newer" -> NewerFn(cb.pred, acc, e)

\* the loop "for _, pkg := range packs": the first callback error ends it;
\* r is what the callback returned for the envelope before rest
RECURSIVE ForeachEnvelope(_, _, _), NextEnvelope(_, _, _)
NextEnvelope(cb, r, rest) ==
    IF r.err # Nil THEN r ELSE ForeachEnvelope(cb, r.acc, rest)

ForeachEnvelope(cb, acc, packs) ==
    IF packs = <<>> THEN [acc |-> acc, err |-> Nil]
    ELSE NextEnvelope(cb, Callback(cb, acc, Head(packs)), Tail(packs))

\* ForeachPackageInRepo once GetPackages returned g
OverPackages(cb, acc, g) ==
    IF g.err # Nil THEN [acc |-> acc, err |-> g.err]
    ELSE ForeachEnvelope(cb, acc, g.val)

ForeachPackageInRepo(repo, cb, acc, fault) ==
    OverPackages(cb, acc, GetPackages(repo, fault))

\* the loop "for _, repo := range repos"; r is what ForeachPackageInRepo
\* returned for the repository before rest
RECURSIVE ForeachRepo(_, _, _, _), NextRepo(_, _, _, _)
NextRepo(cb, r, rest, fault) ==
    IF r.err # Nil THEN r ELSE ForeachRepo(cb, r.acc, rest, fault)

ForeachRepo(cb, acc, rs, fault) ==
    IF rs = <<>> THEN [acc |-> acc, err |-> Nil]
    ELSE NextRepo(cb, ForeachPackageInRepo(Head(rs), cb, acc, fault), Tail(rs), fault)

\* ForeachPackage once GetRepositories returned g
OverRepositories(cb, acc, g, fault) ==
    IF g.err # Nil THEN [acc |-> acc, err |-> g.err]
    ELSE ForeachRepo(cb, acc, g.val, fault)

ForeachPackage(cb, acc, fault) ==
    OverRepositories(cb, acc, GetRepositories(fault), fault)

(***************************************************************************)
(* The resolver's functions: each yields its result value and its error.   *)
(* An operator named ...Result is the part of the function that follows    *)
(* the scan, r being what the scan returned.                               *)
(***************************************************************************)
FindPackageResult(r) ==
    IF r.acc = NoLoc THEN [val |-> NoLoc, err |-> NotFound("package not found")]
    ELSE [val |-> r.acc, err |-> r.err]

FindPackage(pred, fault) ==
    FindPackageResult(ForeachPackage(CbFindPackage(pred), NoLoc, fault))

FindInstalledPackageResult(r) ==
    IF r.err # Nil
    THEN IF IsNotFound(r.err)
         THEN [val |-> NoLoc, err |-> NotFound("no installed package")]
         ELSE [val |-> NoLoc, err |-> r.err]
    ELSE [val |-> r.val.loc, err |-> Nil]

FindInstalledPackage(filter, fault) ==
    FindInstalledPackageResult(FindPackage(PredInstalled(filter), fault))

FindConfigPackageResult(r) ==
    IF r.err # Nil
    THEN IF IsNotFound(r.err)
         THEN [val |-> NoLoc, err |-> NotFound("no configuration package")]
         ELSE [val |-> NoLoc, err |-> r.err]
    ELSE [val |-> r.val.loc, err |-> Nil]

FindConfigPackage(filter, fault) ==
    FindConfigPackageResult(FindPackage(PredConfig(filter), fault))

FindLatestPackagePredicateResult(r) ==
    IF r.err # Nil THEN [val |-> NoLoc, err |-> r.err]
    ELSE IF r.acc = NoLoc
         THEN [val |-> NoLoc, err |-> NotFound("latest package not found")]
    ELSE [val |-> r.acc, err |-> Nil]

FindLatestPackagePredicate(repository, filter, fault) ==
    FindLatestPackagePredicateResult(
        IF repository # ""
        THEN ForeachPackageInRepo(repository, CbLatest(filter), NoLoc, fault)
        ELSE ForeachPackage(CbLatest(filter), NoLoc, fault))

FindLatestPackageResult(r) ==
    IF r.err # Nil /\ IsNotFound(r.err)
    THEN [val |-> NoLoc, err |-> NotFound("latest package with filter not found")]
    ELSE r

FindLatestPackage(filter, fault) ==
    FindLatestPackageResult(
        FindLatestPackagePredicate(filter.repository, PredLine(filter), fault))

FindLatestPackageByNameResult(r) ==
    IF r.err # Nil /\ IsNotFound(r.err)
    THEN [val |-> NoLoc, err |-> NotFound("latest package with name not found")]
    ELSE r

FindLatestPackageByName(name, fault) ==
    FindLatestPackageByNameResult(FindLatestPackagePredicate("", PredName(name), fault))

FindNewerPackagesResult(r) ==
    IF r.err # Nil THEN [val |-> <<>>, err |-> r.err]
    ELSE [val |-> r.acc, err |-> Nil]

FindNewerPackages(filter, fault) ==
    FindNewerPackagesResult(
        ForeachPackageInRepo(filter.repository, CbNewer(filter), <<>>, fault))

PackageUpdate(from, to) == [From |-> from, To |-> to]

\* FindPackageUpdate once FindLatestPackage returned latest
UpdateToAnyDifference(pkg, latest) ==
    IF latest.err # Nil THEN [val |-> NoLoc, err |-> latest.err]
    ELSE IF SemVer(pkg).err # Nil THEN [val |-> NoLoc, err |-> SemVer(pkg).err]
    ELSE IF SemVer(latest.val).err # Nil
         THEN [val |-> NoLoc, err |-> SemVer(latest.val).err]
    ELSE IF Compare(SemVer(latest.val).ver, SemVer(pkg).ver) # 0
         THEN [val |-> PackageUpdate(pkg, latest.val), err |-> Nil]
    ELSE [val |-> NoLoc, err |-> NotFound("already at the latest version")]

UpdateTo(pkg, latest) ==
    IF latest.err # Nil THEN [val |-> NoLoc, err |-> latest.err]
    ELSE IF SemVer(pkg).err # Nil THEN [val |-> NoLoc, err |-> SemVer(pkg).err]
    ELSE IF SemVer(latest.val).err # Nil
         THEN [val |-> NoLoc, err |-> SemVer(latest.val).err]
    ELSE IF Compare(SemVer(latest.val).ver, SemVer(pkg).ver) > 0
         THEN [val |-> PackageUpdate(pkg, latest.val), err |-> Nil]
    ELSE [val |-> NoLoc, err |-> NotFound("already at the latest version")]

FindPackageUpdate(pkg, fault) == UpdateTo(pkg, FindLatestPackage(pkg, fault))

CheckUpdatePackageAllowSame(from, to) ==
    IF from.repository # to.repository \/ from.name # to.name
    THEN BadParameter("different application is installed")
    ELSE IF SemVer(from).err # Nil THEN SemVer(from).err
    ELSE IF SemVer(to).err # Nil THEN SemVer(to).err
    ELSE IF LessThan(SemVer(to).ver, SemVer(from).ver)
         THEN BadParameter("update version must be greater than the installed version")
    ELSE Nil

CheckUpdatePackage(from, to) ==
    IF from.repository # to.repository \/ from.name # to.name
    THEN BadParameter("different application is installed")
    ELSE IF SemVer(from).err # Nil THEN SemVer(from).err
    ELSE IF SemVer(to).err # Nil THEN SemVer(to).err
    ELSE IF ~LessThan(SemVer(from).ver, SemVer(to).ver)
         THEN BadParameter("update version must be greater than the installed version")
    ELSE Nil

\* ConfigLabels: the label set of a configuration package of loc's line
ConfigLabels(loc, purpose) ==
    (ConfigLabel :> String(ZeroVersion(loc))) @@ (PurposeLabel :> purpose)

(***************************************************************************)
(* The package stores and the arguments the resolver is run on.            *)
(***************************************************************************)
\* the packages a store may hold when the resolver is called
Catalog ==
    {Locator("r1", "web", v) : v \in VersionStrings}
        \cup {Locator("r2", "web", "1.2.0"), Locator("r2", "web", "bad"),
              Locator("r1", "db", "2.0.0"), Locator("r2", "db", "1.0.0")}

\* the locators the resolver is asked about
Filters ==
    {Locator("r1", "web", v) : v \in VersionStrings}
        \cup {Locator("r2", "web", "1.0.0"), Locator("r1", "db", "1.0.0"),
              Locator("r2", "db", "bad")}

Lines == {Locator(r, n, "0.0.0") : r \in Repos, n \in Names}

ScanPreds == {PredLine(l) : l \in Lines} \cup {PredName(n) : n \in Names}

\* the orders in which a store may enumerate the packages S
Orderings(S) ==
    {o \in [1..Cardinality(S) -> S] : \A i, j \in 1..Cardinality(S) : i # j => o[i] # o[j]}

Range(s) == {s[i] : i \in 1..Len(s)}

\* the manifest of an application package: "config" declares configuration
\* parameters, "plain" declares none, "broken" cannot be read
Manifests == {"config", "plain", "broken"}

InRepo(s, r) == SelectSeq(s, LAMBDA e : e.loc.repository = r)

NoCall == [op |-> "none", arg |-> NoLoc, fault |-> "none", err |-> Nil, val |-> NoLoc]

UpdateIdle ==
    /\ plan = [type |-> "none", executor |-> <<>>]
    /\ phase = <<>>
    /\ invoked = <<>>
    /\ halted = FALSE
    /\ dispatched = NoCall

UnpackIdle ==
    /\ fs = <<>>
    /\ calls = <<>>

Init ==
    /\ repos \in {<<"r1", "r2">>, <<"r2", "r1">>}
    /\ \E S \in {T \in SUBSET Catalog : Cardinality(T) <= MaxPkgs} :
          \E s \in Orderings(S) :
             pkgs = [r \in Repos |->
                       InRepo([i \in 1..Len(s) |-> Envelope(s[i], NoLabels, "config")], r)]
    /\ ret = NoCall
    /\ created = {}
    /\ UnpackIdle
    /\ UpdateIdle

\* a call is made by a caller that holds no result; it ends with the call's
\* result in ret
Returned(op, arg, fault, r) ==
    /\ ret.op = "none"
    /\ ret' = [op |-> op, arg |-> arg, fault |-> fault, err |-> r.err, val |-> r.val]
    /\ UNCHANGED <<repos, pkgs, created, unpackVars, updateVars>>

CallFindPackage(pred, fault) ==
    Returned("FindPackage", pred, fault, FindPackage(pred, fault))

CallFindLatestPackagePredicate(repository, pred, fault) ==
    Returned("FindLatestPackagePredicate", [repository |-> repository, pred |-> pred],
             fault, FindLatestPackagePredicate(repository, pred, fault))

CallFindNewerPackages(filter, fault) ==
    Returned("FindNewerPackages", filter, fault, FindNewerPackages(filter, fault))

CallFindPackageUpdate(pkg, fault) ==
    Returned("FindPackageUpdate", pkg, fault, FindPackageUpdate(pkg, fault))

\* the caller consumes the result of the call it made
TakeResult ==
    /\ ret.op # "none"
    /\ ret' = NoCall
    /\ UNCHANGED <<repos, pkgs, created, unpackVars, updateVars>>

Next ==
    \/ TakeResult
    \/ \E pred \in ScanPreds, fault \in Faults : CallFindPackage(pred, fault)
    \/ \E repository \in Repos \cup {""}, pred \in ScanPreds, fault \in Faults :
          CallFindLatestPackagePredicate(repository, pred, fault)
    \/ \E filter \in Filters, fault \in Faults : CallFindNewerPackages(filter, fault)
    \/ \E pkg \in Filters, fault \in Faults : CallFindPackageUpdate(pkg, fault)

Spec == Init /\ [][Next]_vars

(***************************************************************************)
(* Properties of the resolver.                                             *)
(***************************************************************************)
RECURSIVE EnumerationOf(_)
EnumerationOf(rs) ==
    IF rs = <<>> THEN <<>> ELSE pkgs[Head(rs)] \o EnumerationOf(Tail(rs))

\* every envelope of the store, in the order ForeachPackage visits them
Enumeration == EnumerationOf(repos)

\* the envelopes a scan of one repository, or of all of them (""), visits
Scope(repository) ==
    IF repository = "" THEN Range(Enumeration) ELSE Range(pkgs[repository])

Valid(l) == SemVer(l).err = Nil
Ver(l) == SemVer(l).ver
SameLine(a, b) == a.repository = b.repository /\ a.name = b.name

LatestCall == ret.op = "FindLatestPackagePredicate" /\ ret.fault = "none"
LatestMatching == {e \in Scope(ret.arg.repository) : Matches(ret.arg.pred, e)}

\* the store holds one line at three or more valid versions, and the
\* predicate selects exactly these packages
ThreeOfOneLine ==
    /\ LatestCall
    /\ Cardinality(LatestMatching) >= 3
    /\ \A e \in LatestMatching : Valid(e.loc)
    /\ \A e, f \in LatestMatching : SameLine(e.loc, f.loc)

\* C1: over a store holding one line at valid versions a < b < c that all
\* satisfy the predicate, FindLatestPackagePredicate returns the locator at
\* the highest version, whatever the enumeration order of the store and
\* whether the scan is scoped to one repository or spans all of them.
C1_LatestOfThree ==
    ThreeOfOneLine =>
        /\ ret.err = Nil
        /\ \E e \in LatestMatching :
              /\ ret.val = e.loc
              /\ \A f \in LatestMatching \ {e} : Compare(Ver(f.loc), Ver(e.loc)) < 0

\* the highest version is enumerated neither first nor last
C1_Witness ==
    /\ ThreeOfOneLine
    /\ ret.arg.repository = "r1"
    /\ ret.val.version = "2.0.0"
    /\ Len(pkgs["r1"]) = 3
    /\ pkgs["r1"][2].loc = ret.val

UpdateCall == ret.op = "FindPackageUpdate" /\ ret.fault = "none"

\* FindPackageUpdate was called for a package of valid version whose line
\* FindLatestPackage resolves to a package of valid version
UpdateResolves ==
    /\ UpdateCall
    /\ Valid(ret.arg)
    /\ FindLatestPackage(ret.arg, "none").err = Nil
    /\ Valid(FindLatestPackage(ret.arg, "none").val)

UpdateLatest == FindLatestPackage(ret.arg, "none").val

\* C3 as stated: not-found when pkg's version equals the latest version of
\* its line, and in every other case in which a latest version resolves a
\* PackageUpdate from pkg to the latest package.
C3_UpdateUnlessEqual ==
    UpdateResolves =>
        IF Compare(Ver(UpdateLatest), Ver(ret.arg)) = 0
        THEN IsNotFound(ret.err)
        ELSE ret.err = Nil /\ ret.val = PackageUpdate(ret.arg, UpdateLatest)

\* C3 amended: a PackageUpdate from pkg to the latest package exactly when the
\* latest version is strictly greater than pkg's; not-found when pkg's version
\* equals or exceeds it.
C3_UpdateOnlyIfGreater ==
    UpdateResolves =>
        IF Compare(Ver(UpdateLatest), Ver(ret.arg)) > 0
        THEN ret.err = Nil /\ ret.val = PackageUpdate(ret.arg, UpdateLatest)
        ELSE IsNotFound(ret.err) /\ ret.val = NoLoc

\* pkg is newer than every package of its line in the store
C3_Witness ==
    /\ UpdateResolves
    /\ Compare(Ver(UpdateLatest), Ver(ret.arg)) < 0
    /\ IsNotFound(ret.err)

FindCall == ret.op = "FindPackage" /\ ret.fault = "none"
FindMatching == {i \in 1..Len(Enumeration) : Matches(ret.arg, Enumeration[i])}
First(I) == CHOOSE i \in I : \A j \in I : i <= j
Last(I) == CHOOSE i \in I : \A j \in I : j <= i

\* C4 as stated: FindPackage returns the first envelope in enumeration order
\* that satisfies the predicate, and not-found exactly when none does.
C4_FirstMatch ==
    FindCall =>
        IF FindMatching = {} THEN IsNotFound(ret.err)
        ELSE ret.err = Nil /\ ret.val = Enumeration[First(FindMatching)]

\* C4 amended: FindPackage returns the last envelope in enumeration order
\* that satisfies the predicate, and not-found exactly when none does.
C4_LastMatch ==
    FindCall =>
        IF FindMatching = {} THEN IsNotFound(ret.err) /\ ret.val = NoLoc
        ELSE ret.err = Nil /\ ret.val = Enumeration[Last(FindMatching)]

\* several envelopes of two repositories satisfy the predicate
C4_Witness ==
    /\ FindCall
    /\ Cardinality(FindMatching) >= 2
    /\ Enumeration[First(FindMatching)].loc.repository # ret.val.loc.repository
    /\ ret.val = Enumeration[Last(FindMatching)]

LatestValid == {e \in LatestMatching : Valid(e.loc)}

\* C9: in FindLatestPackagePredicate an envelope of unparsable version is
\* skipped: whenever an envelope satisfying the predicate has a valid
\* version, the result is a matching envelope of the highest valid version.
C9_UnparsableSkipped ==
    (LatestCall /\ LatestValid # {}) =>
        /\ ret.err = Nil
        /\ \E e \in LatestValid :
              /\ ret.val = e.loc
              /\ \A f \in LatestValid : Compare(Ver(f.loc), Ver(e.loc)) <= 0

NewerCall ==
    /\ ret.op = "FindNewerPackages"
    /\ ret.fault # ret.arg.repository
    /\ Valid(ret.arg)

NewerSameName ==
    {e \in Range(pkgs[ret.arg.repository]) : e.loc.name = ret.arg.name}

NewerExpected ==
    {e.loc : e \in {f \in NewerSameName :
                       Valid(f.loc) /\ Compare(Ver(f.loc), Ver(ret.arg)) > 0}}

\* C10 as stated: FindNewerPackages returns exactly the envelopes of filter's
\* repository and name of strictly greater version, an envelope of unparsable
\* version being skipped.
C10_UnparsableSkipped ==
    NewerCall =>
        /\ ret.err = Nil
        /\ Range(ret.val) = NewerExpected

\* C10 amended: when every envelope of filter's name in filter's repository
\* has a parsable version, FindNewerPackages returns exactly those of strictly
\* greater version; an envelope of that name with an unparsable version makes
\* the whole operation fail with the version error and no result.
C10_UnparsableFails ==
    NewerCall =>
        IF \E e \in NewerSameName : ~Valid(e.loc)
        THEN ret.err = BadParameter("malformed version") /\ ret.val = <<>>
        ELSE /\ ret.err = Nil
             /\ Range(ret.val) = NewerExpected
             /\ Len(ret.val) = Cardinality(NewerExpected)

\* a newer package is in the repository next to one of unparsable version
C10_Witness ==
    /\ NewerCall
    /\ NewerExpected # {}
    /\ \E e \in NewerSameName : ~Valid(e.loc)
    /\ ret.err # Nil

(***************************************************************************)
(* CheckUpdatePackage on every pair of locators.                           *)
(***************************************************************************)
Locators == {Locator(r, n, v) : r \in Repos, n \in Names, v \in VersionStrings}

EmptyStore ==
    /\ repos = <<"r1", "r2">>
    /\ pkgs = [r \in Repos |-> <<>>]
    /\ created = {}

InitCheck ==
    /\ EmptyStore
    /\ ret = NoCall
    /\ UnpackIdle
    /\ UpdateIdle

CallCheckUpdatePackage(from, to) ==
    Returned("CheckUpdatePackage", [from |-> from, to |-> to], "none",
             [err |-> CheckUpdatePackage(from, to), val |-> NoLoc])

NextCheck ==
    \/ TakeResult
    \/ \E from \in Locators, to \in Locators : CallCheckUpdatePackage(from, to)

SpecCheck == InitCheck /\ [][NextCheck]_vars

CheckCall == ret.op = "CheckUpdatePackage"

Upgrade(from, to) ==
    /\ from.repository = to.repository
    /\ from.name = to.name
    /\ Valid(from) /\ Valid(to)
    /\ Compare(Ver(from), Ver(to)) < 0

\* C2: CheckUpdatePackage(from, to) succeeds exactly when from and to have the
\* same repository and name and from's version is lower than to's; every
\* other pair fails with a bad-parameter (invalid-argument) error.
C2_CheckUpdate ==
    CheckCall =>
        /\ ret.err = Nil <=> Upgrade(ret.arg.from, ret.arg.to)
        /\ ~Upgrade(ret.arg.from, ret.arg.to) => ret.err.kind = "BadParameter"

\* an update to the installed version itself is rejected
C2_Witness ==
    /\ CheckCall
    /\ ret.arg.from = ret.arg.to
    /\ Valid(ret.arg.from)
    /\ ret.err = BadParameter("update version must be greater than the installed version")

(***************************************************************************)
(* Configuration packages: GetConfigPackage and ConfigurePackage.          *)
(***************************************************************************)
\* PackageService.ReadPackage: the envelope of loc, or not-found
ReadPackage(loc) ==
    LET found == {e \in Range(pkgs[loc.repository]) : e.loc = loc}
    IN IF found = {} THEN [err |-> NotFound("package not found"), val |-> NoLoc]
       ELSE [err |-> Nil, val |-> CHOOSE e \in found : TRUE]

\* the configuration parameters the manifests of the model declare
KnownParams == {"port"}

\* ReadManifest on the package's archive
ReadManifest(e) ==
    IF e.manifest \in {"config", "plain"}
    THEN [err |-> Nil, val |-> e.manifest]
    ELSE [err |-> Err("IO", "manifest"), val |-> NoLoc]

\* manifest.Config.ParseArgs: every argument names a declared parameter
ParseArgs(args) ==
    IF \A i \in 1..Len(args) : args[i] \in KnownParams THEN Nil
    ELSE BadParameter("bad arguments")

\* GetConfigPackage: the configuration package's contents, nothing stored
GetConfigPackage(loc, confLoc, args) ==
    LET read == ReadPackage(loc)
    IN IF read.err # Nil THEN [err |-> read.err, val |-> NoLoc]
       ELSE IF ReadManifest(read.val).err # Nil
            THEN [err |-> ReadManifest(read.val).err, val |-> NoLoc]
       ELSE IF ReadManifest(read.val).val # "config"
            THEN [err |-> BadParameter("manifest does not have configuration parameters"),
                  val |-> NoLoc]
       ELSE IF ParseArgs(args) # Nil THEN [err |-> ParseArgs(args), val |-> NoLoc]
       ELSE [err |-> Nil, val |-> [vars |-> args]]

\* the label set ConfigurePackage hands to CreatePackage: the config label of
\* loc's line, then every caller-supplied label assigned over it
AllLabels(loc, labels) ==
    [k \in {ConfigLabel} \cup DOMAIN labels |->
        IF k \in DOMAIN labels THEN labels[k] ELSE String(ZeroVersion(loc))]

\* s with e inserted after its first at elements
InsertAt(s, at, e) == SubSeq(s, 1, at) \o <<e>> \o SubSeq(s, at + 1, Len(s))

Exists(loc) == \E e \in Range(pkgs[loc.repository]) : e.loc = loc

\* ConfigurePackage with the check of GetConfigPackage's error left out: the
\* package is created whatever GetConfigPackage returned
ConfigurePackageUnchecked(loc, confLoc, args, labels, at) ==
    /\ ret.op = "none"
    /\ ~Exists(confLoc)
    /\ Cardinality(created) < MaxConfigs
    /\ at \in 0..Len(pkgs[confLoc.repository])
    /\ pkgs' = [pkgs EXCEPT ![confLoc.repository] =
                  InsertAt(@, at, Envelope(confLoc, AllLabels(loc, labels), "vars"))]
    /\ created' = created \cup {[loc |-> loc, confLoc |-> confLoc, labels |-> labels]}
    /\ ret' = [op |-> "ConfigurePackage", fault |-> "none",
               err |-> GetConfigPackage(loc, confLoc, args).err,
               arg |-> [loc |-> loc, confLoc |-> confLoc],
               val |-> [createPackage |-> TRUE]]
    /\ UNCHANGED <<repos, unpackVars, updateVars>>

\* ConfigurePackage(loc, confLoc, args, labels); at is the place the store
\* gives the new package in its repository's enumeration.  The result notes
\* whether the call reached CreatePackage.
ConfigurePackage(loc, confLoc, args, labels, at) ==
    LET conf == GetConfigPackage(loc, confLoc, args)
    IN /\ ret.op = "none"
       /\ IF conf.err # Nil
          THEN /\ ret' = [op |-> "ConfigurePackage", fault |-> "none", err |-> conf.err,
                          arg |-> [loc |-> loc, confLoc |-> confLoc], val |-> [createPackage |-> FALSE]]
               /\ UNCHANGED <<pkgs, created>>
          ELSE IF Exists(confLoc)
          THEN \* CreatePackage refuses a locator the store already holds
               /\ ret' = [op |-> "ConfigurePackage", fault |-> "none",
                          err |-> Err("AlreadyExists", "package already exists"),
                          arg |-> [loc |-> loc, confLoc |-> confLoc], val |-> [createPackage |-> TRUE]]
               /\ UNCHANGED <<pkgs, created>>
          ELSE /\ Cardinality(created) < MaxConfigs
               /\ at \in 0..Len(pkgs[confLoc.repository])
               /\ pkgs' = [pkgs EXCEPT ![confLoc.repository] =
                             InsertAt(@, at, Envelope(confLoc, AllLabels(loc, labels), "vars"))]
               /\ created' = created \cup {[loc |-> loc, confLoc |-> confLoc,
                                              labels |-> labels]}
               /\ ret' = [op |-> "ConfigurePackage", fault |-> "none", err |-> Nil,
                          arg |-> [loc |-> loc, confLoc |-> confLoc], val |-> [createPackage |-> TRUE]]
       /\ UNCHANGED <<repos, unpackVars, updateVars>>

CallGetConfigPackage(loc, confLoc, args) ==
    Returned("GetConfigPackage", [loc |-> loc, args |-> args], "none",
             GetConfigPackage(loc, confLoc, args))

CallFindConfigPackage(filter, fault) ==
    Returned("FindConfigPackage", filter, fault, FindConfigPackage(filter, fault))

\* the application packages of the store that is configured
Sources ==
    <<Envelope(Locator("r1", "web", "1.0.0"), NoLabels, "config"),
      Envelope(Locator("r1", "db", "2.0.0"), NoLabels, "config"),
      Envelope(Locator("r2", "web", "1.2.0"), NoLabels, "plain"),
      Envelope(Locator("r2", "db", "bad"), NoLabels, "broken")>>

\* the packages ConfigurePackage is asked to configure: those of the store
\* and one the store does not hold
ConfigSources ==
    {Sources[i].loc : i \in 1..Len(Sources)} \cup {Locator("r1", "web", "2.0.0")}

ConfLocs ==
    {Locator("r1", "webconf", "1.0.0"), Locator("r2", "dbconf", "1.0.0"),
     Locator("r2", "conf", "0.1.0")}

ArgLists == {<<"port">>, <<"bogus">>}

\* the labels callers supply: a purpose, the labels ConfigLabels builds for
\* the web line, and a config label naming the db line
CallerLabels ==
    {PurposeLabel :> "runtime",
     ConfigLabels(Locator("r1", "web", "1.0.0"), "runtime"),
     ConfigLabel :> String(ZeroVersion(Locator("r1", "db", "2.0.0")))}

ConfigFilters ==
    {Locator("r1", "web", "2.0.0"), Locator("r1", "db", "2.0.0"),
     Locator("r2", "web", "1.2.0")}

InitConfig ==
    /\ repos = <<"r1", "r2">>
    /\ pkgs = [r \in Repos |-> InRepo(Sources, r)]
    /\ created = {}
    /\ ret = NoCall
    /\ UnpackIdle
    /\ UpdateIdle

NextConfig ==
    \/ TakeResult
    \/ \E loc \in ConfigSources, confLoc \in ConfLocs, args \in ArgLists,
          labels \in CallerLabels :
          \E at \in {0, Len(pkgs[confLoc.repository])} :
             ConfigurePackage(loc, confLoc, args, labels, at)
    \/ \E loc \in ConfigSources, confLoc \in ConfLocs, args \in ArgLists :
          CallGetConfigPackage(loc, confLoc, args)
    \/ \E filter \in ConfigFilters, fault \in Faults :
          CallFindConfigPackage(filter, fault)

SpecConfig == InitConfig /\ [][NextConfig]_vars

ConfigCall == ret.op = "FindConfigPackage" /\ ret.fault = "none"

\* every successful ConfigurePackage call configured another line
DifferentLines ==
    \A c, d \in created : c # d => ~SameLine(c.loc, d.loc)

\* C5: after successful ConfigurePackage calls for different lines, with any
\* caller-supplied labels, FindConfigPackage(loc) returns exactly the confLoc
\* created for loc's line and never the package created for another line.
C5_ConfigRoundTrip ==
    (ConfigCall /\ DifferentLines) =>
        \A c \in created :
            IF SameLine(c.loc, ret.arg)
            THEN ret.err = Nil /\ ret.val = c.confLoc
            ELSE ret.val # c.confLoc

\* the round trip of C5 for callers whose labels carry no config key
C5_RoundTripOwnLabel ==
    (ConfigCall /\ DifferentLines /\ \A c \in created : ConfigLabel \notin DOMAIN c.labels) =>
        \A c \in created :
            IF SameLine(c.loc, ret.arg)
            THEN ret.err = Nil /\ ret.val = c.confLoc
            ELSE ret.val # c.confLoc

\* the step is a ConfigurePackage call returning
Configures == ret.op = "none" /\ ret'.op = "ConfigurePackage"

\* s without its element at place at
RemoveAt(s, at) == SubSeq(s, 1, at - 1) \o SubSeq(s, at + 1, Len(s))

\* the step adds exactly one package, at confLoc, to the store: the store did
\* not hold confLoc, its repository's enumeration is the old one with the new
\* envelope put in, every other repository is as it was, and the source
\* package loc is held as before
AddsOneAt(loc, confLoc) ==
    /\ ~Exists(confLoc)
    /\ \E at \in 1..Len(pkgs'[confLoc.repository]) :
          /\ pkgs'[confLoc.repository][at].loc = confLoc
          /\ RemoveAt(pkgs'[confLoc.repository], at) = pkgs[confLoc.repository]
    /\ \A r \in Repos \ {confLoc.repository} : pkgs'[r] = pkgs[r]
    /\ \E e \in Range(pkgs[loc.repository]) :
          e.loc = loc /\ e \in Range(pkgs'[loc.repository])

\* the errors of GetConfigPackage: the package could not be read, its
\* manifest could not be read or declares no configuration parameters, or
\* the arguments do not match the declared parameters
FailedInGetConfigPackage(err) ==
    \/ IsNotFound(err)
    \/ err = Err("IO", "manifest")
    \/ err = BadParameter("manifest does not have configuration parameters")
    \/ err = BadParameter("bad arguments")

\* C11: the only operation that changes the package store is a successful
\* ConfigurePackage, which adds exactly one package at confLoc and leaves the
\* source package and every other package unchanged; a ConfigurePackage that
\* fails in GetConfigPackage makes no CreatePackage call and leaves the store
\* unchanged; GetConfigPackage alone never creates a package.
C11_StoreFrame ==
    [][/\ pkgs' # pkgs => (Configures /\ ret'.err = Nil)
       /\ (Configures /\ ret'.err = Nil) =>
             /\ ret'.val.createPackage
             /\ AddsOneAt(ret'.arg.loc, ret'.arg.confLoc)
       /\ (Configures /\ FailedInGetConfigPackage(ret'.err)) =>
             /\ ~ret'.val.createPackage
             /\ pkgs' = pkgs
       /\ ret'.op = "GetConfigPackage" => pkgs' = pkgs]_vars

\* a package was configured, and a later ConfigurePackage of a package whose
\* manifest declares no configuration parameters failed before CreatePackage
\* with the store holding the sources and the one package created
C11_Witness ==
    /\ ret.op = "ConfigurePackage"
    /\ ret.err = BadParameter("manifest does not have configuration parameters")
    /\ ~ret.val.createPackage
    /\ Cardinality(created) = 1
    /\ Len(pkgs["r1"]) + Len(pkgs["r2"]) = Len(Sources) + 1

(***************************************************************************)
(* Unpacking a package into a directory.  A path of the file system is     *)
(* "absent", a regular "file", or a directory that is "empty", holds a     *)
(* "partial" extraction or holds the "full" contents of the package.       *)
(* fault names the step of the call that the environment fails: "state"    *)
(* (state.GetStateDir), "read" (ReadPackage), "untar" (archive.Untar).     *)
(***************************************************************************)
\* PackagePath(baseDir, loc) under the state directory
DefaultDir == "state/local/packages/unpacked/r1/web/1.0.0"

Dirs == {"/tmp/web", DefaultDir}

\* the targetDir arguments: a directory, or "" for the default location
Targets == {"/tmp/web", ""}

UnpackFaults == {"none", "state", "read", "untar"}

\* os.Stat: the empty path names nothing
Stat(f, path) == IF path = "" THEN "absent" ELSE f[path]

IsUnpacked(f, targetDir) ==
    IF Stat(f, targetDir) = "absent" THEN [val |-> FALSE, err |-> Nil]
    ELSE IF Stat(f, targetDir) = "file"
         THEN [val |-> FALSE, err |-> Err("Error", "expected a directory")]
    ELSE [val |-> TRUE, err |-> Nil]

\* os.MkdirAll: creates the directory unless a directory is there
MkdirAll(f, dir) == [f EXCEPT ![dir] = IF @ = "absent" THEN "empty" ELSE @]

Unpack(f, targetDir, fault) ==
    LET dir == IF targetDir = "" THEN DefaultDir ELSE targetDir
        made == MkdirAll(f, dir)
    IN IF targetDir = "" /\ fault = "state"
       THEN [fs |-> f, err |-> Err("IO", "state dir"), read |-> FALSE, extracted |-> FALSE]
       ELSE IF f[dir] = "file"
            THEN [fs |-> f, err |-> Err("IO", "not a directory"), read |-> FALSE,
                  extracted |-> FALSE]
       ELSE IF fault = "read"
            THEN [fs |-> made, err |-> Err("IO", "read package"), read |-> TRUE,
                  extracted |-> FALSE]
       ELSE IF fault = "untar"
            THEN [fs |-> [made EXCEPT ![dir] = "partial"], err |-> Err("IO", "untar"),
                  read |-> TRUE, extracted |-> FALSE]
       ELSE [fs |-> [made EXCEPT ![dir] = "full"], err |-> Nil, read |-> TRUE,
             extracted |-> TRUE]

UnpackIfNotUnpacked(f, targetDir, fault) ==
    LET isUnpacked == IsUnpacked(f, targetDir)
    IN IF isUnpacked.err # Nil
       THEN [fs |-> f, err |-> isUnpacked.err, read |-> FALSE, extracted |-> FALSE]
       ELSE IF isUnpacked.val
            THEN [fs |-> f, err |-> Nil, read |-> FALSE, extracted |-> FALSE]
       ELSE Unpack(f, targetDir, fault)

\* a call ends with the file system it leaves and its entry in the log; the
\* entry keeps the fault only if the call reached the failing step
Called(op, targetDir, fault, r) ==
    /\ Len(calls) < MaxCalls
    /\ fs' = r.fs
    /\ calls' = Append(calls,
          [op |-> op, target |-> targetDir, err |-> r.err, read |-> r.read,
           extracted |-> r.extracted,
           fault |-> IF r.err = Nil THEN "none" ELSE fault,
           before |-> fs[IF targetDir = "" THEN DefaultDir ELSE targetDir]])
    /\ UNCHANGED <<storeVars, updateVars>>

CallUnpack(targetDir, fault) ==
    Called("Unpack", targetDir, fault, Unpack(fs, targetDir, fault))

CallUnpackIfNotUnpacked(targetDir, fault) ==
    Called("UnpackIfNotUnpacked", targetDir, fault,
           UnpackIfNotUnpacked(fs, targetDir, fault))

InitUnpack ==
    /\ fs \in [Dirs -> {"absent", "file", "full"}]
    /\ calls = <<>>
    /\ EmptyStore
    /\ ret = NoCall
    /\ UpdateIdle

NextUnpack ==
    \/ \E targetDir \in Targets, fault \in UnpackFaults : CallUnpack(targetDir, fault)
    \/ \E targetDir \in Targets, fault \in UnpackFaults :
          CallUnpackIfNotUnpacked(targetDir, fault)

SpecUnpack == InitUnpack /\ [][NextUnpack]_vars

\* calls i and i + 1 are UnpackIfNotUnpacked for the same target directory,
\* the package not unpacked there before, and the environment fails neither
TwiceInSequence(i) ==
    /\ calls[i].op = "UnpackIfNotUnpacked"
    /\ calls[i + 1].op = "UnpackIfNotUnpacked"
    /\ calls[i].target = calls[i + 1].target
    /\ calls[i].before = "absent"
    /\ calls[i].fault = "none"
    /\ calls[i + 1].fault = "none"

\* C6: of two UnpackIfNotUnpacked calls in sequence for the same package and
\* target directory the first extracts the archive, and the second reads
\* nothing from the package service, extracts nothing and returns success.
C6_UnpackOnce ==
    \A i \in 1..(Len(calls) - 1) :
        TwiceInSequence(i) =>
            /\ calls[i].extracted
            /\ ~calls[i + 1].read
            /\ ~calls[i + 1].extracted
            /\ calls[i + 1].err = Nil

\* the idempotence of C6 for a target directory that is named
C6_UnpackOnceNamed ==
    \A i \in 1..(Len(calls) - 1) :
        (TwiceInSequence(i) /\ calls[i].target # "") =>
            /\ calls[i].extracted
            /\ ~calls[i + 1].read
            /\ ~calls[i + 1].extracted
            /\ calls[i + 1].err = Nil

\* the directory a call with this targetDir works on
DirOf(targetDir) == IF targetDir = "" THEN DefaultDir ELSE targetDir

\* the call that returned last
LastCall == calls[Len(calls)]

\* UnpackIfNotUnpacked would report the directory as already unpacked
ReportedUnpacked(targetDir) == IsUnpacked(fs, targetDir) = [val |-> TRUE, err |-> Nil]

\* C12: whenever UnpackIfNotUnpacked returns success the target directory
\* holds the fully extracted contents of the package, also after earlier calls
\* that failed reading or extracting the package; after a failed call the
\* directory is reported as already unpacked only if it holds the full contents.
C12_SuccessMeansUnpacked ==
    Len(calls) > 0 =>
        /\ (LastCall.op = "UnpackIfNotUnpacked" /\ LastCall.err = Nil) =>
              fs[DirOf(LastCall.target)] = "full"
        /\ (LastCall.err # Nil /\ ReportedUnpacked(LastCall.target)) =>
              fs[DirOf(LastCall.target)] = "full"

\* the success of C12 in runs where no call has failed
C12_SuccessAfterNoFailure ==
    (Len(calls) > 0 /\ \A i \in 1..Len(calls) : calls[i].err = Nil) =>
        ((LastCall.op = "UnpackIfNotUnpacked") => fs[DirOf(LastCall.target)] = "full")

(***************************************************************************)
(* The update operation: phase executor names and their dispatch.          *)
(***************************************************************************)
updateInit == "update_init"
updateChecks == "update_checks"
updateBootstrap == "update_bootstrap"
updateSystem == "update_system"
preUpdate == "pre_update"
coredns == "coredns"
updateApp == "update_app"
electionStatus == "election_status"
taintNode == "taint_node"
untaintNode == "untaint_node"
drainNode == "drain_node"
uncordonNode == "uncordon_node"
endpoints == "endpoints"
config == "config"
kubeletPermissions == "kubelet_permissions"
migrateLinks == "links"
updateLabels == "labels"
migrateRoles == "roles"
updateEtcdBackup == "etcd_backup"
updateEtcdShutdown == "etcd_shutdown"
updateEtcdMaster == "etcd_upgrade"
updateEtcdRestore == "etcd_restore"
updateEtcdRestart == "etcd_restart"
updateEtcdRestartGravity == "etcd_restart_gravity"
cleanupNode == "cleanup_node"

\* ops.OperationUpdate and another operation type
OperationUpdate == "operation_update"
OperationInstall == "operation_install"

\* the arms of fsmSpec's switch: the constructor an executor name selects
Constructor(executor) ==
    CASE executor = updateInit -> "NewUpdatePhaseInit"
      [] executor = updateChecks -> "NewUpdatePhaseChecks"
      [] executor = updateBootstrap -> "NewUpdatePhaseBootstrap"
      [] executor = coredns -> "NewPhaseCoreDNS"
      [] executor = updateSystem -> "NewUpdatePhaseSystem"
      [] executor = preUpdate -> "NewUpdatePhaseBeforeApp"
      [] executor = updateApp -> "NewUpdatePhaseApp"
      [] executor = electionStatus -> "NewPhaseElectionChange"
      [] executor = taintNode -> "NewPhaseTaint"
      [] executor = untaintNode -> "NewPhaseUntaint"
      [] executor = drainNode -> "NewPhaseDrain"
      [] executor = uncordonNode -> "NewPhaseUncordon"
      [] executor = endpoints -> "NewPhaseEndpoints"
      [] executor = config -> "NewUpdatePhaseConfig"
      [] executor = kubeletPermissions -> "NewPhaseKubeletPermissions"
      [] executor = migrateLinks -> "NewPhaseMigrateLinks"
      [] executor = updateLabels -> "NewPhaseUpdateLabels"
      [] executor = migrateRoles -> "NewPhaseMigrateRoles"
      [] executor = updateEtcdBackup -> "NewPhaseUpgradeEtcdBackup"
      [] executor = updateEtcdShutdown -> "NewPhaseUpgradeEtcdShutdown"
      [] executor = updateEtcdMaster -> "NewPhaseUpgradeEtcd"
      [] executor = updateEtcdRestore -> "NewPhaseUpgradeEtcdRestore"
      [] executor = updateEtcdRestart -> "NewPhaseUpgradeEtcdRestart"
      [] executor = updateEtcdRestartGravity -> "NewPhaseUpgradeGravitySiteRestart"
      [] executor = cleanupNode -> "NewGarbageCollectPhase"
      [] OTHER -> ""

NotSpecified == BadParameter("error in plan, executor for phase was not specified")
Unsupported == BadParameter("unsupported operation")
UnknownExecutor ==
    BadParameter("phase requires executor (potential mismatch between upgrade versions)")

\* a constructor returns its executor, or fails when the phase cannot be built
Construct(ctor, fails) ==
    IF fails THEN [err |-> Err("Error", "constructor failed"), val |-> NoLoc, ctor |-> ctor]
    ELSE [err |-> Nil, val |-> [executor |-> ctor], ctor |-> ctor]

fsmSpecNoDefault(type, executor, fails) ==
    IF executor = "" THEN [err |-> NotSpecified, val |-> NoLoc, ctor |-> ""]
    ELSE IF type # OperationUpdate THEN [err |-> Unsupported, val |-> NoLoc, ctor |-> ""]
    ELSE IF Constructor(executor) # ""
         THEN Construct(Constructor(executor), fails)
    ELSE [err |-> Nil, val |-> NoLoc, ctor |-> ""]

fsmSpecAnyOperation(type, executor, fails) ==
    IF executor = "" THEN [err |-> NotSpecified, val |-> NoLoc, ctor |-> ""]
    ELSE IF Constructor(executor) # ""
         THEN Construct(Constructor(executor), fails)
    ELSE [err |-> UnknownExecutor, val |-> NoLoc, ctor |-> ""]

\* the function fsmSpec returns, on p.Plan.OperationType and p.Phase.Executor;
\* ctor is the constructor it called, "" if none
fsmSpec(type, executor, fails) ==
    IF executor = "" THEN [err |-> NotSpecified, val |-> NoLoc, ctor |-> ""]
    ELSE IF type # OperationUpdate THEN [err |-> Unsupported, val |-> NoLoc, ctor |-> ""]
    ELSE IF Constructor(executor) # ""
         THEN Construct(Constructor(executor), fails)
    ELSE [err |-> UnknownExecutor, val |-> NoLoc, ctor |-> ""]

(***************************************************************************)
(* The phase state machine that drives a plan through the dispatch.        *)
(***************************************************************************)
Phases == {"A", "B"}

\* the phases a phase depends on
Requires == [p \in Phases |-> IF p = "B" THEN {"A"} ELSE {}]

Dependents(p) == {q \in Phases : p \in Requires[q]}

\* a pending phase, or a failed one that is retried, starts once every phase
\* it depends on is completed: the engine asks the dispatch for its executor;
\* a dispatch error aborts the run, otherwise the executor is invoked
StartPhase(p) ==
    LET d == fsmSpec(plan.type, plan.executor[p], p \in plan.broken)
    IN /\ ~halted
       /\ phase[p] \in {"pending", "failed"}
       /\ \A q \in Requires[p] : phase[q] = "completed"
       /\ invoked[p] < MaxRuns
       /\ dispatched' = [op |-> "fsmSpec", fault |-> "none", err |-> d.err, val |-> d.val,
                         arg |-> [type |-> plan.type, executor |-> plan.executor[p],
                                  phase |-> p, ctor |-> d.ctor]]
       /\ IF d.err # Nil
          THEN halted' = TRUE /\ UNCHANGED <<phase, invoked>>
          ELSE /\ phase' = [phase EXCEPT ![p] = "running"]
               /\ invoked' = [invoked EXCEPT ![p] = @ + 1]
               /\ UNCHANGED halted
       /\ UNCHANGED <<plan, storeVars, unpackVars>>

\* the executor of a running phase returns
FinishPhase(p, outcome) ==
    /\ phase[p] = "running"
    /\ phase' = [phase EXCEPT ![p] = outcome]
    /\ UNCHANGED <<plan, invoked, halted, dispatched, storeVars, unpackVars>>

\* the rollback pass: a completed or failed phase is rolled back once no
\* phase that depends on it is still to be rolled back
RollbackPhase(p) ==
    /\ phase[p] \in {"completed", "failed"}
    /\ \A q \in Dependents(p) : phase[q] \in {"pending", "rolled_back"}
    /\ phase' = [phase EXCEPT ![p] = "rolled_back"]
    /\ UNCHANGED <<plan, invoked, halted, dispatched, storeVars, unpackVars>>

Vocabulary ==
    {updateInit, updateChecks, updateBootstrap, updateSystem, preUpdate,
     coredns, updateApp, electionStatus, taintNode, untaintNode,
     drainNode, uncordonNode, endpoints, config, kubeletPermissions,
     migrateLinks, updateLabels, migrateRoles, updateEtcdBackup, updateEtcdShutdown,
     updateEtcdMaster, updateEtcdRestore, updateEtcdRestart, updateEtcdRestartGravity, cleanupNode}

\* the executor names plans carry: the vocabulary, none and a foreign name
ExecutorNames == Vocabulary \cup {"", "install_app"}

InitUpdate ==
    /\ plan \in [type : {OperationUpdate, OperationInstall},
                 executor : [Phases -> ExecutorNames],
                 broken : SUBSET Phases]
    /\ plan.executor["B"] \in {updateApp, "", "install_app"}
    /\ phase = [p \in Phases |-> "pending"]
    /\ invoked = [p \in Phases |-> 0]
    /\ halted = FALSE
    /\ dispatched = NoCall
    /\ EmptyStore
    /\ ret = NoCall
    /\ UnpackIdle

NextUpdate ==
    \/ \E p \in Phases : StartPhase(p)
    \/ \E p \in Phases, outcome \in {"completed", "failed"} : FinishPhase(p, outcome)
    \/ \E p \in Phases : RollbackPhase(p)

SpecUpdate == InitUpdate /\ [][NextUpdate]_vars

Dispatched == dispatched.op = "fsmSpec"

\* C7 as stated: the dispatch returns unknown-executor for every executor
\* string outside the vocabulary and unsupported-operation whenever the
\* operation type is not update; it calls no constructor in either case, and
\* calls one only for a name of the vocabulary under the update type.
C7_DispatchAsStated ==
    Dispatched =>
        /\ dispatched.arg.executor \notin Vocabulary =>
              dispatched.err = UnknownExecutor /\ dispatched.arg.ctor = ""
        /\ dispatched.arg.type # OperationUpdate =>
              dispatched.err = Unsupported /\ dispatched.arg.ctor = ""
        /\ dispatched.arg.ctor # "" =>
              /\ dispatched.arg.executor \in Vocabulary
              /\ dispatched.arg.type = OperationUpdate

\* C7 amended: the dispatch returns the executor-not-specified error for the
\* empty executor string, whatever the operation type; otherwise
\* unsupported-operation when the operation type is not update, whatever the
\* executor name; otherwise unknown-executor for a name outside the
\* vocabulary.  It calls no constructor in these cases, and calls one exactly
\* for a name of the vocabulary under the update type.
C7_DispatchInOrder ==
    Dispatched =>
        /\ dispatched.arg.executor = "" =>
              dispatched.err = NotSpecified /\ dispatched.arg.ctor = ""
        /\ (dispatched.arg.executor # "" /\ dispatched.arg.type # OperationUpdate) =>
              dispatched.err = Unsupported /\ dispatched.arg.ctor = ""
        /\ (/\ dispatched.arg.executor \notin Vocabulary \cup {""}
            /\ dispatched.arg.type = OperationUpdate) =>
              dispatched.err = UnknownExecutor /\ dispatched.arg.ctor = ""
        /\ dispatched.arg.ctor # "" <=>
              /\ dispatched.arg.executor \in Vocabulary
              /\ dispatched.arg.type = OperationUpdate

\* a name of the vocabulary is refused in a plan of another operation type
C7_Witness ==
    /\ Dispatched
    /\ dispatched.arg.executor = updateEtcdRestartGravity
    /\ dispatched.arg.type = OperationInstall
    /\ dispatched.err = Unsupported

\* the executor of phase p cannot be constructed: the plan names none, is
\* not an update plan, names one outside the vocabulary, or the phase's
\* constructor fails
ConstructionFails(p) ==
    \/ plan.executor[p] = ""
    \/ plan.type # OperationUpdate
    \/ plan.executor[p] \notin Vocabulary
    \/ p \in plan.broken

\* C8: in a plan of phases A and B, B depending on A, if the construction of
\* A's executor fails then B's executor is never invoked, and B does not
\* leave the pending state while A is not completed.
C8_DependentNeverInvoked ==
    /\ ConstructionFails("A") => phase["B"] = "pending" /\ invoked["B"] = 0
    /\ phase["B"] # "pending" => phase["A"] \in {"completed", "rolled_back"}

\* in an update plan A names an executor outside the vocabulary: its dispatch
\* failed and aborted the run with B, whose executor can be constructed,
\* still pending
C8_Witness ==
    /\ plan.type = OperationUpdate
    /\ plan.executor["A"] = "install_app"
    /\ ~ConstructionFails("B")
    /\ Dispatched
    /\ dispatched.arg.phase = "A"
    /\ dispatched.err = UnknownExecutor
    /\ halted
    /\ phase["B"] = "pending"
    /\ invoked["B"] = 0

====
